---- MODULE Spec2Model ----
(***************************************************************************)
(* Model of server/index.ts: the in-memory pad store with last-writer-wins *)
(* resolution (GET/PUT /pads/:padId) and the WebSocket fan-out             *)
(* (/ws/pads/:padId).  Node runs every handler to completion on one        *)
(* thread, so each handler is one atomic action.                           *)
(***************************************************************************)
EXTENDS Integers, Sequences, FiniteSets, TLC

(* ------------------------------ bounds --------------------------------- *)

\* the version counter is capped: no PUT is served once it reaches MaxVersion
MaxVersion == 2

(* ------------------------------ values --------------------------------- *)

PadIds == {"p", "q"}
\* instants (milliseconds since the epoch): enough of them for MaxVersion strictly
\* later writes after a default snapshot stamped at 0
MaxTime == MaxVersion
Instants == 0..MaxTime
\* the readings new Date() can give: before, or at, the earliest later write
ClockInstants == {0, 1}
\* the WebSocket objects the server ever creates
ConnIds == {"ws1", "ws2"}

\* Number.NaN, the time value of an invalid Date
NaN == -1

\* A date string is modelled by its notation and the instant it denotes:
\*   "iso"     YYYY-MM-DDTHH:mm:ss.sssZ, the output format of toISOString
\*   "offset"  the same instant written with a non-zero UTC offset (+01:00)
\*   "bad"     a string no Date can be parsed from ("yesterday")
IsoStrings == [fmt : {"iso"}, ms : Instants]
OffsetStrings == [fmt : {"offset"}, ms : Instants]
BadDateString == [fmt |-> "bad", ms |-> 0]
DateStringsAt1 == { s \in IsoStrings \cup OffsetStrings : s.ms = 1 }

\* new Date(s).getTime()
DateParse(s) == IF s.fmt = "bad" THEN NaN ELSE s.ms

\* date.toISOString()
toISOString(ms) == [fmt |-> "iso", ms |-> ms]

\* A JSON value of the request body: its typeof and, for a string, the string.
JsString(s) == [type |-> "string", str |-> s]
JsNumberText == [type |-> "number", str |-> ""]
JsMissingText == [type |-> "undefined", str |-> ""]
JsMissingDate == [type |-> "undefined", str |-> BadDateString]

Body(text, dateString, deviceID) ==
    [text |-> JsString(text), lastModified |-> JsString(dateString),
     deviceID |-> JsString(deviceID)]

\* the writes of two devices: d1 stamps any instant in ISO notation; d2 stamps
\* instant 1, in either notation
ValidBodies ==
    { Body("a", s, "d1") : s \in IsoStrings } \cup { Body("b", s, "d2") : s \in DateStringsAt1 }

BaseBody == [text |-> JsString("a"), lastModified |-> JsString(toISOString(MaxTime)),
             deviceID |-> JsString("d1")]

\* bodies that fail validation: each field once not a string (a number, or missing),
\* and a lastModified string that denotes no instant
InvalidBodies ==
    { [BaseBody EXCEPT !.text = JsNumberText],
      [BaseBody EXCEPT !.lastModified = JsMissingDate],
      [BaseBody EXCEPT !.deviceID = JsMissingText],
      [BaseBody EXCEPT !.lastModified = JsString(BadDateString)] }

Bodies == ValidBodies \cup InvalidBodies

NoBody == [text |-> JsMissingText, lastModified |-> JsMissingDate, deviceID |-> JsMissingText]

\* type Snapshot
NoSnapshot == [text |-> "", lastModified |-> BadDateString, deviceID |-> "", version |-> -1]

\* request paths of a WebSocket upgrade: prefix and the rest of the path
Urls == { [prefix |-> "/ws/pads/", rest |-> r] : r \in {"p", "q", "%70", "%", ""} }
          \cup { [prefix |-> "/", rest |-> "" ] }

\* (mutant) (.*) in place of (.+): the empty pad id matches
UrlMatchEmptyId(url) == url.prefix = "/ws/pads/"

\* url.match(/^\/ws\/pads\/(.+)$/)
UrlMatch(url) == url.prefix = "/ws/pads/" /\ url.rest # ""

\* decodeURIComponent throws URIError on a malformed escape
DecodeThrows(rest) == rest = "%"

\* decodeURIComponent(match[1]); "%70" is the escape of "p"
decodeURIComponent(rest) == IF rest = "%70" THEN "p" ELSE rest

\* JSON.stringify(snap): the four fields in declaration order
JSONStringify(snap) == <<snap.text, snap.lastModified, snap.deviceID, snap.version>>

JSONParse(msg) ==
    [text |-> msg[1], lastModified |-> msg[2], deviceID |-> msg[3], version |-> msg[4]]

(* ------------------------------- state --------------------------------- *)

VARIABLES
    pads,                  \* Map<string, Snapshot>: a function on the pad ids present
    globalVersionCounter,
    clients,               \* Set<Client>: records [ws, padId]
    readyState,            \* per connection: "NONE" (not opened yet), "OPEN", "CLOSING", "CLOSED"
    sent,                  \* per live connection: the payloads handed to ws.send, in order
    running,               \* FALSE once an uncaught exception has ended the process
    accepted,              \* history: the applied writes, [padId, lastModified, version], in order
    last                   \* history: the HTTP request the step served, its response,
                           \* how it ended, and the candidate when it was applied
                           \* (NoRequest after a WebSocket event)

vars == <<pads, globalVersionCounter, clients, readyState, sent, running,
          accepted, last>>

Has(padId) == padId \in DOMAIN pads

\* pads.set(padId, snap)
MapSet(map, padId, snap) ==
    [k \in DOMAIN map \cup {padId} |-> IF k = padId THEN snap ELSE map[k]]

Record(op, padId, body, status, resp, error, outcome) ==
    [op |-> op, padId |-> padId, body |-> body, status |-> status, resp |-> resp,
     error |-> error, outcome |-> outcome]

\* no HTTP request is being answered
NoRequest == Record("none", "", NoBody, 0, NoSnapshot, "", "")

Init ==
    /\ pads = << >>
    /\ globalVersionCounter = 0
    /\ clients = {}
    /\ readyState = [c \in ConnIds |-> "NONE"]
    /\ sent = [c \in ConnIds |-> << >>]
    /\ running = TRUE
    /\ accepted = << >>
    /\ last = NoRequest

(* ------------------------------ the store ------------------------------ *)

\* the snapshot ensureSnapshot builds for an absent pad; now is new Date()
DefaultSnapshot(now) ==
    [text |-> "", lastModified |-> toISOString(now), deviceID |-> "server",
     version |-> globalVersionCounter]

\* the value ensureSnapshot returns
ensureSnapshot(padId, now) ==
    IF Has(padId) THEN pads[padId] ELSE DefaultSnapshot(now)

\* (mutant) the default snapshot returned without pads.set
ensuredPadsNotSet(padId, now) == pads

\* the pad map ensureSnapshot leaves behind
ensuredPads(padId, now) ==
    IF Has(padId) THEN pads ELSE MapSet(pads, padId, DefaultSnapshot(now))

\* (mutant) the typeof test of deviceID left out
IsStringPayloadNoDevice(body) ==
    /\ body.text.type = "string"
    /\ body.lastModified.type = "string"

\* the three typeof tests of PUT
IsStringPayload(body) ==
    /\ body.text.type = "string"
    /\ body.lastModified.type = "string"
    /\ body.deviceID.type = "string"

\* (mutant) the increment left out
NextVersionNotIncremented == globalVersionCounter

\* globalVersionCounter += 1
NextVersion == globalVersionCounter + 1

\* (mutant) the comparison reversed
IsEarlier(incomingDate, currentDate) == incomingDate < currentDate

\* (mutant) any other instant wins
IsDifferent(incomingDate, currentDate) == incomingDate # currentDate

\* (mutant) ties go to the incoming write
IsNotEarlier(incomingDate, currentDate) == incomingDate >= currentDate

\* incomingDate > currentDate
IsLater(incomingDate, currentDate) == incomingDate > currentDate

\* const updated: Snapshot = {...}, built after the counter was incremented
Updated(body, incomingDate, counter) ==
    [text |-> body.text.str, lastModified |-> toISOString(incomingDate),
     deviceID |-> body.deviceID.str, version |-> counter]

\* (mutant) the loop given up at the first client of the pad that is not open
RecipientsUnlessOneFailed(padId) ==
    IF \E x \in clients : x.padId = padId /\ readyState[x.ws] # "OPEN"
    THEN {}
    ELSE { cl.ws : cl \in { x \in clients : x.padId = padId } }

\* (mutant) the pad comparison left out
RecipientsOfAnyPad(padId) ==
    { cl.ws : cl \in { x \in clients : readyState[x.ws] = "OPEN" } }

\* (mutant) the pad comparison inverted
RecipientsOfOtherPads(padId) ==
    { cl.ws : cl \in { x \in clients : x.padId # padId /\ readyState[x.ws] = "OPEN" } }

\* the connections broadcastSnapshot sends to
Recipients(padId) ==
    { cl.ws : cl \in { x \in clients : x.padId = padId /\ readyState[x.ws] = "OPEN" } }

\* (mutant) the broadcast made before pads.set: it reads the old map
broadcastBeforeSet(padId, newPads) ==
    IF padId \notin DOMAIN pads THEN sent
    ELSE [c \in ConnIds |->
            IF c \in Recipients(padId)
            THEN Append(sent[c], JSONStringify(pads[padId]))
            ELSE sent[c]]

\* broadcastSnapshot(padId), run against the pad map newPads
broadcastSnapshot(padId, newPads) ==
    IF padId \notin DOMAIN newPads THEN sent
    ELSE [c \in ConnIds |->
            IF c \in Recipients(padId)
            THEN Append(sent[c], JSONStringify(newPads[padId]))
            ELSE sent[c]]

\* app.get("/pads/:padId")
Get(padId, now) ==
    /\ running
    /\ pads' = ensuredPads(padId, now)
    /\ last' = Record("get", padId, NoBody, 200, ensureSnapshot(padId, now), "", "")
    /\ UNCHANGED <<globalVersionCounter, clients, readyState, sent, running,
                   accepted>>

\* app.put("/pads/:padId")
Put(padId, body, now) ==
    /\ running
    /\ globalVersionCounter < MaxVersion
    /\ UNCHANGED <<clients, readyState, running>>
    /\ IF ~IsStringPayload(body)
       THEN /\ last' = Record("put", padId, NoBody, 400, NoSnapshot, "Invalid snapshot payload", "invalid")
            /\ UNCHANGED <<pads, globalVersionCounter, sent, accepted>>
       ELSE IF DateParse(body.lastModified.str) = NaN
       THEN /\ last' = Record("put", padId, NoBody, 400, NoSnapshot, "Invalid lastModified", "invalid")
            /\ UNCHANGED <<pads, globalVersionCounter, sent, accepted>>
       ELSE LET incomingDate == DateParse(body.lastModified.str)
                current == ensureSnapshot(padId, now)
                currentDate == DateParse(current.lastModified)
            IN  IF IsLater(incomingDate, currentDate)
                THEN LET updated == Updated(body, incomingDate, NextVersion)
                     IN  /\ globalVersionCounter' = NextVersion
                         /\ pads' = MapSet(ensuredPads(padId, now), padId, updated)
                         /\ sent' = broadcastSnapshot(padId, pads')
                         /\ accepted' = Append(accepted, [padId |-> padId, lastModified |-> updated.lastModified,
                                                      version |-> updated.version])
                         /\ last' = Record("put", padId, body, 200, updated, "", "applied")
                ELSE /\ pads' = ensuredPads(padId, now)
                     /\ last' = Record("put", padId, NoBody, 200, current, "",
                                         IF incomingDate = currentDate THEN "tie" ELSE "stale")
                     /\ UNCHANGED <<globalVersionCounter, sent, accepted>>

(* ---------------------------- the registry ----------------------------- *)

\* connection objects are fresh: ws1 is created first, then ws2
NextConn == IF readyState["ws1"] = "NONE" THEN "ws1" ELSE "ws2"

\* wss.on("connection")
WsConnection(url, now) ==
    /\ running
    /\ \E c \in ConnIds : readyState[c] = "NONE"
    /\ LET ws == NextConn
       IN  IF ~UrlMatch(url)
           THEN \* ws.close(); return
                /\ readyState' = [readyState EXCEPT ![ws] = "CLOSING"]
                /\ last' = NoRequest
                /\ UNCHANGED <<pads, globalVersionCounter, clients, sent, running,
                               accepted>>
           ELSE IF DecodeThrows(url.rest)
           THEN \* URIError leaves the listener uncaught
                /\ running' = FALSE
                /\ readyState' = [readyState EXCEPT ![ws] = "CLOSED"]
                /\ last' = NoRequest
                /\ UNCHANGED <<pads, globalVersionCounter, clients, sent,
                               accepted>>
           ELSE LET padId == decodeURIComponent(url.rest)
                    snap == ensureSnapshot(padId, now)
                IN  /\ pads' = ensuredPads(padId, now)
                    /\ readyState' = [readyState EXCEPT ![ws] = "OPEN"]
                    /\ sent' = [sent EXCEPT ![ws] = Append(@, JSONStringify(snap))]
                    /\ clients' = clients \cup {[ws |-> ws, padId |-> padId]}
                    /\ last' = NoRequest
                    /\ UNCHANGED <<globalVersionCounter, running, accepted>>

\* the connection starts closing (a close frame, or the socket ended): readyState
\* leaves OPEN before "close" is emitted
WsClosing(ws) ==
    /\ running
    /\ readyState[ws] = "OPEN"
    /\ readyState' = [readyState EXCEPT ![ws] = "CLOSING"]
    /\ last' = NoRequest
    /\ UNCHANGED <<pads, globalVersionCounter, clients, sent, running, accepted>>

\* ws.on("error"): logs; the library has already left OPEN and will emit "close"
WsError(ws) ==
    /\ running
    /\ readyState[ws] = "OPEN"
    /\ readyState' = [readyState EXCEPT ![ws] = "CLOSING"]
    /\ last' = NoRequest
    /\ UNCHANGED <<pads, globalVersionCounter, clients, sent, running, accepted>>

\* (mutant) the close listener without clients.delete
WsCloseNoDelete(ws) ==
    /\ running
    /\ readyState[ws] = "CLOSING"
    /\ readyState' = [readyState EXCEPT ![ws] = "CLOSED"]
    /\ sent' = [sent EXCEPT ![ws] = << >>]
    /\ last' = NoRequest
    /\ UNCHANGED <<pads, globalVersionCounter, clients, running, accepted>>

\* ws.on("close"): clients.delete(client); a rejected connection has no listener
WsClose(ws) ==
    /\ running
    /\ readyState[ws] = "CLOSING"
    /\ readyState' = [readyState EXCEPT ![ws] = "CLOSED"]
    /\ clients' = { cl \in clients : cl.ws # ws }
    /\ sent' = [sent EXCEPT ![ws] = << >>]
    /\ last' = NoRequest
    /\ UNCHANGED <<pads, globalVersionCounter, running, accepted>>

\* new Date() is evaluated only when ensureSnapshot finds the pad absent
ClockReadings(padId) == IF Has(padId) THEN {0} ELSE ClockInstants

Next ==
    \/ \E padId \in PadIds : \E now \in ClockReadings(padId) : Get(padId, now)
    \/ \E padId \in PadIds, body \in Bodies : \E now \in ClockReadings(padId) :
          Put(padId, body, now)
    \/ \E url \in Urls : \E now \in ClockReadings(decodeURIComponent(url.rest)) :
          WsConnection(url, now)
    \/ \E ws \in ConnIds : WsClosing(ws)
    \/ \E ws \in ConnIds : WsError(ws)
    \/ \E ws \in ConnIds : WsClose(ws)

Spec == Init /\ [][Next]_vars

\* the library emits "close" for every connection that has left OPEN: the listener of
\* a closing connection is eventually run
FairSpec == Spec /\ \A ws \in ConnIds : WF_vars(WsClose(ws))

(* ------------------------- terms of the claims ------------------------- *)

\* the step just taken served a PUT
PutStep == last'.op = "put"

\* a body every field of which is a string, with a lastModified that denotes an instant
WellFormed(body) ==
    /\ body.text.type = "string"
    /\ body.deviceID.type = "string"
    /\ body.lastModified.type = "string"
    /\ body.lastModified.str.fmt \in {"iso", "offset"}

WellFormedBodies == { body \in Bodies : WellFormed(body) }
MalformedBodies == { body \in Bodies : ~WellFormed(body) }

\* the step served a PUT of body to the pad named in last', now being the clock
\* reading ensureSnapshot takes if the pad is absent
PutOf(body, now) == last'.body \in {body, NoBody} /\ Put(last'.padId, body, now)

\* the instant a well-formed candidate carries
InstantOf(body) == body.lastModified.str.ms

\* the instant of the pad's current snapshot before the step, the default one being
\* created first if the pad is absent
CurrentInstant(now) == IF Has(last'.padId) THEN pads[last'.padId].lastModified.ms ELSE now

\* the writes applied so far to padId, in order
RECURSIVE AcceptedFor(_, _)
AcceptedFor(log, padId) ==
    IF log = << >> THEN << >>
    ELSE IF Head(log).padId = padId
         THEN <<Head(log)>> \o AcceptedFor(Tail(log), padId)
         ELSE AcceptedFor(Tail(log), padId)

\* the open, registered subscribers of padId
OpenSubscribers(padId) ==
    { c \in ConnIds : [ws |-> c, padId |-> padId] \in clients /\ readyState[c] = "OPEN" }

(* -------------------------------- C1 ----------------------------------- *)

\* C1 as stated: a valid put strictly later than the current snapshot is applied: the
\* counter goes up by exactly 1, the stored snapshot is {candidate.text,
\* candidate.lastModified, candidate.deviceID, version = new counter}, and it is the
\* snapshot returned.  (Refuted: the stored lastModified is not the candidate's string.)
C1_StoresCandidateString ==
    [][PutStep =>
         \A body \in WellFormedBodies, now \in ClockReadings(last'.padId) :
            (InstantOf(body) > CurrentInstant(now) /\ PutOf(body, now)) =>
               /\ globalVersionCounter' = globalVersionCounter + 1
               /\ pads'[last'.padId] =
                    [text |-> body.text.str,
                     lastModified |-> body.lastModified.str,
                     deviceID |-> body.deviceID.str,
                     version |-> globalVersionCounter']
               /\ last'.resp = pads'[last'.padId]]_vars

\* C1 amended: a valid put strictly later than the current snapshot is applied: the
\* counter goes up by exactly 1, the stored snapshot has the candidate's text and
\* deviceID, the new counter value as version, and as lastModified the ISO (UTC,
\* millisecond) rendering of the candidate's instant; that snapshot is returned.
C1_AppliedWhenLater ==
    [][PutStep =>
         \A body \in WellFormedBodies, now \in ClockReadings(last'.padId) :
            (InstantOf(body) > CurrentInstant(now) /\ PutOf(body, now)) =>
               /\ globalVersionCounter' = globalVersionCounter + 1
               /\ pads'[last'.padId] =
                    [text |-> body.text.str,
                     lastModified |-> [fmt |-> "iso", ms |-> InstantOf(body)],
                     deviceID |-> body.deviceID.str,
                     version |-> globalVersionCounter']
               /\ last'.status = 200
               /\ last'.resp = pads'[last'.padId]]_vars

\* a put in offset notation has just been applied to a pad
C1_Witness ==
    /\ last.op = "put" /\ last.outcome = "applied"
    /\ last.body.lastModified.str.fmt = "offset"
    /\ last.resp = pads[last.padId]
    /\ last.resp.version = globalVersionCounter

(* -------------------------------- C2 ----------------------------------- *)

C3_TiesRejected ==
    [][PutStep =>
         \A body \in WellFormedBodies, now \in ClockReadings(last'.padId) :
            (InstantOf(body) = CurrentInstant(now) /\ PutOf(body, now)) =>
               /\ globalVersionCounter' = globalVersionCounter
               /\ Has(last'.padId) => pads'[last'.padId] = pads[last'.padId]
               /\ pads'[last'.padId].version <= globalVersionCounter
               /\ \A q \in DOMAIN pads : pads'[q] = pads[q]
               /\ sent' = sent]_vars

\* a put carrying the instant of the stored write has just been rejected while a
\* subscriber of the pad was open
C3_Witness ==
    /\ last.op = "put" /\ last.status = 200 /\ last.outcome = "tie"
    /\ Has(last.padId)
    /\ pads[last.padId].version >= 1
    /\ last.resp = pads[last.padId]
    /\ OpenSubscribers(last.padId) # {}

(* -------------------------------- C4 ----------------------------------- *)

\* the writes applied so far to the pad of the step
AcceptedHere == AcceptedFor(accepted, last'.padId)

\* C4: in a sequence of valid writes to one pad with strictly increasing lastModified,
\* starting from a never-written pad, every write, the first included, is applied and
\* the pad's version strictly increases: a valid put to a pad with no applied write, or
\* one later than the pad's last applied write, is applied.  (Refuted: the first write
\* loses against the default snapshot's creation time.)
C4_IncreasingWritesApplied ==
    [][PutStep =>
         \A body \in WellFormedBodies, now \in ClockReadings(last'.padId) :
            (/\ \/ AcceptedHere = << >>
                \/ InstantOf(body) > AcceptedHere[Len(AcceptedHere)].lastModified.ms
             /\ PutOf(body, now)) =>
               /\ globalVersionCounter' = globalVersionCounter + 1
               /\ pads'[last'.padId].version = globalVersionCounter'
               /\ pads'[last'.padId].text = body.text.str]_vars

(* -------------------------------- C5 ----------------------------------- *)

\* C5: get of a pad that was never written returns empty text and version 0, the
\* counter's value at process start, however many writes other pads got before.
\* (Refuted: the default snapshot takes the counter's value at creation.)
C5_UnwrittenPadHasStartVersion ==
    (last.op = "get" /\ AcceptedFor(accepted, last.padId) = << >>) =>
        /\ last.resp.text = ""
        /\ last.resp.version = 0

(* -------------------------------- C6 ----------------------------------- *)

\* C6: the counter never decreases and, of any two applied writes, on the same pad or
\* not, the one applied later has the strictly greater version.
C6_VersionsTotallyOrdered ==
    [][/\ globalVersionCounter' >= globalVersionCounter
       /\ \A i, j \in DOMAIN accepted' :
            i < j => accepted'[i].version < accepted'[j].version]_vars

\* two writes have been applied, to different pads
C6_Witness ==
    /\ Len(accepted) >= 2
    /\ accepted[1].padId # accepted[2].padId
    /\ pads[accepted[1].padId].version = accepted[1].version
    /\ pads[accepted[2].padId].version = accepted[2].version

(* -------------------------------- C7 ----------------------------------- *)

\* C7: the writes applied to one pad are strictly increasing in lastModified and in
\* version; no two of them carry the same lastModified.
C7_PerPadStrictlyIncreasing ==
    \A i, j \in DOMAIN accepted :
        (i < j /\ accepted[i].padId = accepted[j].padId) =>
            /\ DateParse(accepted[i].lastModified) < DateParse(accepted[j].lastModified)
            /\ accepted[i].version < accepted[j].version

\* a second write has just been applied to a pad
C7_Witness ==
    /\ last.op = "put" /\ last.outcome = "applied"
    /\ Len(AcceptedFor(accepted, last.padId)) >= 2

(* -------------------------------- C8 ----------------------------------- *)

\* C8: a put whose body is not well formed gets a client error and changes nothing: no
\* pad is created or modified, the counter keeps its value, nothing is sent, and the
\* registry is as before.
C8_InvalidBodyNoEffect ==
    [][PutStep =>
         \A body \in MalformedBodies, now \in ClockReadings(last'.padId) :
            PutOf(body, now) =>
               /\ last'.status = 400
               /\ last'.error # ""
               /\ pads' = pads
               /\ globalVersionCounter' = globalVersionCounter
               /\ sent' = sent
               /\ clients' = clients]_vars

\* an invalid put to an absent pad was just refused while a subscriber was open
C8_Witness ==
    /\ last.op = "put" /\ last.status = 400
    /\ ~Has(last.padId)
    /\ \E c \in ConnIds : readyState[c] = "OPEN" /\ sent[c] # << >>

(* -------------------------------- C9 ----------------------------------- *)

\* the entries of log with a version above v, and those with a version up to v
After(log, v) == SelectSeq(log, LAMBDA e : e.version > v)
UpTo(log, v) == SelectSeq(log, LAMBDA e : e.version <= v)

\* C9: the first message of every open registered subscriber is the snapshot get(p)
\* returned when it connected (the last write applied to p by then, or p's default
\* snapshot if there was none), and the messages after it are the writes applied to p
\* since, each one once, in order: none is missed.
C9_InitialSyncThenNoMiss ==
    \A cl \in clients :
        readyState[cl.ws] = "OPEN" =>
            /\ sent[cl.ws] # << >>
            /\ LET first == JSONParse(sent[cl.ws][1])
                   log == AcceptedFor(accepted, cl.padId)
                   before == UpTo(log, first.version)
                   since == After(log, first.version)
               IN  /\ IF before = << >>
                      THEN first.text = "" /\ first.deviceID = "server"
                      ELSE /\ first.version = before[Len(before)].version
                           /\ first.lastModified = before[Len(before)].lastModified
                   /\ Len(sent[cl.ws]) = 1 + Len(since)
                   /\ \A i \in DOMAIN since :
                        /\ JSONParse(sent[cl.ws][i + 1]).version = since[i].version
                        /\ JSONParse(sent[cl.ws][i + 1]).lastModified = since[i].lastModified

\* a subscriber that connected after a write to its pad has since got a push
C9_Witness ==
    \E c \in ConnIds :
        /\ readyState[c] = "OPEN"
        /\ Len(sent[c]) >= 2
        /\ JSONParse(sent[c][1]).version >= 1
        /\ JSONParse(sent[c][1]).text # ""
        /\ JSONParse(sent[c][2]).version > JSONParse(sent[c][1]).version

(* -------------------------------- C10 ---------------------------------- *)

\* C10: an applied write to p sends exactly one message, the newly stored snapshot, to
\* every subscriber registered for p and open at that moment; a rejected write sends
\* nothing to anyone.
C10_OnePushPerAppliedWrite ==
    [][PutStep =>
         IF globalVersionCounter' # globalVersionCounter
         THEN \A c \in OpenSubscribers(last'.padId) :
                 sent'[c] = Append(sent[c], JSONStringify(pads'[last'.padId]))
         ELSE sent' = sent]_vars

\* a write was just applied to a pad with two open subscribers, which hold it
C10_Witness ==
    /\ last.op = "put" /\ last.outcome = "applied"
    /\ OpenSubscribers(last.padId) = ConnIds
    /\ \A c \in ConnIds :
          /\ Len(sent[c]) >= 2
          /\ JSONParse(sent[c][Len(sent[c])]) = pads[last.padId]

(* -------------------------------- C11 ---------------------------------- *)

\* the versions of the messages handed to connection c, in order
VersionsSent(c) == [i \in DOMAIN sent[c] |-> JSONParse(sent[c][i]).version]

\* C11: the messages of one subscriber arrive in the order the writes were accepted:
\* the versions of its pushes are strictly increasing, each strictly greater than the
\* version of the initial snapshot it got on connect, and they follow the order of the
\* log of applied writes.
C11_PushesInVersionOrder ==
    \A c \in ConnIds :
        /\ \A i, j \in DOMAIN sent[c] : i < j => VersionsSent(c)[i] < VersionsSent(c)[j]
        /\ \A i \in DOMAIN sent[c] :
              i > 1 => \E k \in DOMAIN accepted :
                          /\ accepted[k].version = VersionsSent(c)[i]
                          /\ accepted[k].lastModified = JSONParse(sent[c][i]).lastModified

\* a subscriber has got its initial snapshot and then two pushes
C11_Witness ==
    \E c \in ConnIds :
        /\ readyState[c] = "OPEN"
        /\ Len(sent[c]) >= 3
        /\ VersionsSent(c)[1] < VersionsSent(c)[2]
        /\ VersionsSent(c)[2] < VersionsSent(c)[3]

(* -------------------------------- C12 ---------------------------------- *)

\* the registered subscribers of padId a broadcast cannot deliver to: their connection
\* is no longer open
FailedSubscribers(padId) ==
    { cl \in clients : cl.padId = padId /\ readyState[cl.ws] # "OPEN" }

\* C12: a subscriber to which delivery fails during a broadcast (its connection is not
\* open when the broadcast runs) is removed from the registry by that broadcast: after
\* the applied put it is no longer a member of the subscriber set.  (Refuted: the
\* broadcast skips it and leaves it registered.)
C12_FailedSubscriberRemoved ==
    [][(PutStep /\ globalVersionCounter' # globalVersionCounter) =>
          \A cl \in FailedSubscribers(last'.padId) : cl \notin clients']_vars

(* -------------------------------- C13 ---------------------------------- *)

\* C13: a failed delivery to one subscriber of the pad affects neither the others nor
\* the writer: when a valid, strictly later put is served while a registered subscriber
\* of the pad is not open, every open subscriber of the pad still gets the new
\* snapshot, the write is stored, and the writer is answered 200 with it.
C13_FailureDoesNotSpread ==
    [][PutStep =>
         \A body \in WellFormedBodies, now \in ClockReadings(last'.padId) :
            (/\ FailedSubscribers(last'.padId) # {}
             /\ InstantOf(body) > CurrentInstant(now)
             /\ PutOf(body, now)) =>
               /\ \A c \in OpenSubscribers(last'.padId) :
                     sent'[c] = Append(sent[c], JSONStringify(pads'[last'.padId]))
               /\ pads'[last'.padId].text = body.text.str
               /\ pads'[last'.padId].version = globalVersionCounter + 1
               /\ last'.status = 200
               /\ last'.error = ""
               /\ last'.resp = pads'[last'.padId]]_vars

\* a write was just applied to a pad one subscriber of which was closing and the
\* other open; the open one holds the new snapshot
C13_Witness ==
    /\ last.op = "put" /\ last.outcome = "applied"
    /\ FailedSubscribers(last.padId) # {}
    /\ \E c \in OpenSubscribers(last.padId) :
          /\ Len(sent[c]) >= 2
          /\ JSONParse(sent[c][Len(sent[c])]) = pads[last.padId]

(* -------------------------------- C14 ---------------------------------- *)

\* connection c is in the registry
Registered(c) == \E cl \in clients : cl.ws = c

\* C14: membership ends by itself on disconnect or error.  The step that runs the
\* close listener of a connection takes it out of the registry; a connection that has
\* left OPEN (an error event, or a disconnect under way) is handed no further message;
\* and such a connection is eventually out of the registry (or the process has ended),
\* with no step of the peer needed.
C14_MembershipEndsOnCloseOrError ==
    /\ [][\A c \in ConnIds :
            /\ (readyState[c] = "CLOSING" /\ readyState'[c] = "CLOSED") => ~Registered(c)'
            /\ readyState[c] \in {"CLOSING", "CLOSED"} =>
                  (sent'[c] = sent[c] \/ sent'[c] = << >>)]_vars
    /\ \A c \in ConnIds :
          (Registered(c) /\ readyState[c] = "CLOSING") ~> (~Registered(c) \/ ~running)

\* a registered subscriber's connection has left OPEN, and a write applied to its pad
\* since then reached the other subscriber of the pad but not it
C14_Witness ==
    \E cl \in clients :
        /\ readyState[cl.ws] = "CLOSING"
        /\ \E c \in OpenSubscribers(cl.padId) :
              /\ Len(sent[c]) >= 2
              /\ JSONParse(sent[c][Len(sent[c])]).version >
                    JSONParse(sent[cl.ws][Len(sent[cl.ws])]).version
              /\ JSONParse(sent[c][1]).version <=
                    JSONParse(sent[cl.ws][Len(sent[cl.ws])]).version

(* -------------------------------- C15 ---------------------------------- *)

\* the snapshots a reader can have in hand, each with the pad it is of: what get
\* returns, the response just given, and the messages handed to the subscribers
Observed ==
    { [padId |-> p, snap |-> pads[p]] : p \in DOMAIN pads }
    \cup (IF last.status = 200 THEN { [padId |-> last.padId, snap |-> last.resp] } ELSE {})
    \cup UNION { { [padId |-> cl.padId, snap |-> JSONParse(sent[cl.ws][i])] :
                     i \in DOMAIN sent[cl.ws] } : cl \in clients }

\* the default snapshot as the process makes it at its start, before any write
IsStartDefault(snap) == snap.text = "" /\ snap.deviceID = "server" /\ snap.version = 0

\* C15: no observable snapshot carries a version handed out to a different write: two
\* observable snapshots with the same version are the same accepted write of the same
\* pad, or are both the process-start default.  (Refuted: a default snapshot created
\* after a write carries that write's version.)
C15_VersionNamesOneWrite ==
    \A a, b \in Observed :
        a.snap.version = b.snap.version =>
            \/ a = b
            \/ IsStartDefault(a.snap) /\ IsStartDefault(b.snap)

(* -------------------------------- C16 ---------------------------------- *)

\* C16: a valid put is always answered 200 with the pad's canonical snapshot: whether
\* the write was applied or rejected, the snapshot returned is the one stored for the
\* pad right after the call, which is what a get of the pad then returns.
C16_PutAnswersCanonical ==
    [][PutStep =>
         \A body \in WellFormedBodies, now \in ClockReadings(last'.padId) :
            PutOf(body, now) =>
               /\ last'.status = 200
               /\ last'.error = ""
               /\ last'.padId \in DOMAIN pads'
               /\ last'.resp = pads'[last'.padId]]_vars

\* a valid put to a pad that was absent has just been rejected and answered with the
\* default snapshot, which is now stored
C16_Witness ==
    /\ last.op = "put" /\ last.status = 200 /\ last.outcome \in {"tie", "stale"}
    /\ last.resp.deviceID = "server"
    /\ Has(last.padId)
    /\ last.resp = pads[last.padId]

(* -------------------------------- C17 ---------------------------------- *)

\* the request paths outside the scheme /ws/pads/<padId>, <padId> not empty
NonMatchingUrls == { url \in Urls : url.prefix # "/ws/pads/" \/ url.rest = "" }

\* C17: a subscription request whose path is outside the scheme does not reach the
\* store or the registry: its connection is closed, it is not registered, no pad is
\* created, nothing is sent to it or to anyone, and the counter keeps its value.
C17_BadPathRejected ==
    [][\A url \in NonMatchingUrls, now \in ClockInstants :
          WsConnection(url, now) =>
             /\ readyState[NextConn] = "NONE"
             /\ readyState'[NextConn] \in {"CLOSING", "CLOSED"}
             /\ \A cl \in clients' : cl.ws # NextConn
             /\ clients' = clients
             /\ pads' = pads
             /\ sent' = sent
             /\ globalVersionCounter' = globalVersionCounter]_vars

\* a connection was refused (it is closing and was sent nothing) while a subscriber is
\* open and registered
C17_Witness ==
    \E c \in ConnIds :
        /\ readyState[c] = "CLOSING"
        /\ sent[c] = << >>
        /\ ~Registered(c)
        /\ clients # {}
        /\ \E d \in ConnIds : readyState[d] = "OPEN" /\ Registered(d)

(* -------------------------------- C18 ---------------------------------- *)

\* C18: in every reachable state, the last message handed to each subscriber that is
\* registered and open is the snapshot currently stored for its pad.
C18_SubscribersConverged ==
    \A cl \in clients :
        readyState[cl.ws] = "OPEN" =>
            /\ sent[cl.ws] # << >>
            /\ cl.padId \in DOMAIN pads
            /\ JSONParse(sent[cl.ws][Len(sent[cl.ws])]) = pads[cl.padId]

\* two open subscribers of different pads, each written since it connected, hold the
\* stored snapshot of their own pad
C18_Witness ==
    \E c, d \in clients :
        /\ c.padId # d.padId
        /\ readyState[c.ws] = "OPEN" /\ readyState[d.ws] = "OPEN"
        /\ Len(sent[c.ws]) >= 2 /\ Len(sent[d.ws]) >= 2
        /\ JSONParse(sent[c.ws][Len(sent[c.ws])]) = pads[c.padId]
        /\ JSONParse(sent[d.ws][Len(sent[d.ws])]) = pads[d.padId]

(* -------------------------------- C19 ---------------------------------- *)

\* the step leaves every pad other than padId as it was, and creates no other pad
OnlyPadTouched(padId) ==
    /\ DOMAIN pads' \subseteq DOMAIN pads \cup {padId}
    /\ \A q \in DOMAIN pads : q # padId => (q \in DOMAIN pads' /\ pads'[q] = pads[q])

\* C19: an operation on pad p (get, put applied or rejected, subscribe) never changes
\* the stored snapshot of another pad, and an applied write to p hands no message to a
\* subscriber of another pad.
C19_PadIsolation ==
    [][/\ last'.op \in {"get", "put"} =>
            /\ OnlyPadTouched(last'.padId)
            /\ \A cl \in clients : cl.padId # last'.padId => sent'[cl.ws] = sent[cl.ws]
       /\ last'.op = "none" =>
            \A url \in Urls \ NonMatchingUrls, now \in ClockInstants :
               WsConnection(url, now) =>
                  /\ OnlyPadTouched(decodeURIComponent(url.rest))
                  /\ \A cl \in clients : sent'[cl.ws] = sent[cl.ws]]_vars

\* a write was just applied to a pad while an open subscriber of the other pad, which
\* exists with a write of its own, got nothing
C19_Witness ==
    /\ last.op = "put" /\ last.outcome = "applied"
    /\ \E cl \in clients :
          /\ cl.padId # last.padId
          /\ readyState[cl.ws] = "OPEN"
          /\ pads[cl.padId].version >= 1
          /\ JSONParse(sent[cl.ws][Len(sent[cl.ws])]) = pads[cl.padId]
          /\ pads[cl.padId].version < pads[last.padId].version

(* -------------------------------- C20 ---------------------------------- *)

\* C20: in every reachable state the counter is the number of writes applied so far,
\* every stored snapshot has a version from 0 to the counter, and every registered
\* subscriber is bound to a pad that has an entry; and no step removes a pad.
C20_StoreWellFormed ==
    /\ [](/\ globalVersionCounter = Len(accepted)
          /\ \A p \in DOMAIN pads : pads[p].version \in 0..globalVersionCounter
          /\ \A cl \in clients : cl.padId \in DOMAIN pads)
    /\ [][DOMAIN pads \subseteq DOMAIN pads']_vars

\* both pads exist, one written twice and one never, and a subscriber is registered
C20_Witness ==
    /\ DOMAIN pads = PadIds
    /\ globalVersionCounter = 2
    /\ Len(accepted) = 2
    /\ \E p \in PadIds : pads[p].version = 2 /\ Len(AcceptedFor(accepted, p)) = 2
    /\ clients # {}

====
